---- MODULE Spec2Model ----
(***************************************************************************)
(* Model of beamer_to_rmarkdown (src/beamer2rmd_v2.py).                    *)
(*                                                                         *)
(* A text is a sequence of lexemes; the Python string is the               *)
(* concatenation of the lexemes.  Every character the program's regular    *)
(* expressions test for (braces, brackets, pipes, newlines, blanks, the    *)
(* backslash that opens a command) is a lexeme of its own or the first     *)
(* character of one, so \begin{frame} is the four lexemes                  *)
(* "\\begin" "{" "frame" "}".  The regular expressions are written as      *)
(* patterns over lexemes and matched by a backtracking matcher with        *)
(* Python's priorities (leftmost match, lazy and greedy quantifiers).      *)
(***************************************************************************)
EXTENDS Integers, Sequences, FiniteSets, TLC

VARIABLES
    input_text,            \* the text main() read and passed in (line 712)
    latex_text,            \* the local latex_text, rebound by every global pass
    widescreen,            \* the flag
    rmd_content,           \* the output built so far
    frames,                \* the (title, content) pairs of line 303
    idx,                   \* the position of the frame loop in frames, from 1
    slide_title,           \* the local slide_title of the iteration
    content,               \* the loop variable content, rebound by every frame pass
    centered,              \* the iteration took the branch of line 319
    translated,            \* the iteration took the branch of line 347
    slides,                \* per finished iteration: slide_title, content, branch taken
    image_replacer_bound,  \* the closure variable image_replacer has a value
    exc,                   \* the exception the call ended with, "None" when none
    pc                     \* the statement the call is at

vars == <<input_text, latex_text, widescreen, rmd_content, frames, idx, slide_title,
          content, centered, translated, slides, image_replacer_bound, exc, pc>>

(***************************************************************************)
(* Lexeme classes.                                                         *)
(***************************************************************************)
\* the characters Python's \s and str.strip() treat as blank
WS == {" ", "\n", "\t"}

\* lexemes whose first character is a backslash
Backslashed == {"\\", "\\\\", "\\begin", "\\end", "\\section", "\\item", "\\includegraphics",
                "\\textwidth", "\\caption", "\\centering", "\\footnote", "\\url", "\\href",
                "\\title", "\\author", "\\institute", "\\toprule", "\\midrule", "\\bottomrule",
                "\\color", "\\textcolor", "\\textbullet", "\\scriptsize", "\\tiny", "\\small",
                "\\large", "\\Large", "\\LARGE", "\\huge", "\\Huge", "\\hline"}

\* the characters of [\d.]
Digits == {"0", "1", "2", "3", "4", "5", "6", "7", "8", "9"}
DigitVal(d) == CASE d = "0" -> 0 [] d = "1" -> 1 [] d = "2" -> 2 [] d = "3" -> 3 [] d = "4" -> 4
                 [] d = "5" -> 5 [] d = "6" -> 6 [] d = "7" -> 7 [] d = "8" -> 8 [] d = "9" -> 9

\* lexemes made only of [a-zA-Z0-9_.] characters
WordChars == Digits \cup {".", "a", "b", "c", "d", "e", "f", "x", "y", "df", "col", "T", "S",
                          "Intro", "Overview", "Thank", "you", "frame", "itemize", "enumerate",
                          "figure", "table", "tabular", "center", "verbatim", "lstlisting",
                          "a.png", "b.pdf", "c.PDF", "p", "cm", "red"}

\* lexemes that contain the character >; each of them ends with it
HasGT == {">", "\" target=\"_blank\">", "%\">", "%\" height=\"500px\">", "\">", "</a>",
          "</iframe>", "<center>", "</center>", "</small>", "<small>", "</span>", "</div>",
          " align-items: center; justify-content: center; height: 400px;\">",
          "<div style=\"font-size: 36px; text-align: center;\">",
          "<div style=\"text-align: center; font-style: italic; margin-top: 8px;\">"}

\* TLA+ strings cannot hold a backquote or U+2022; these lexemes stand for the
\* fence of three backquotes, the fence with its r tag, and the bullet character
Fence == "(backquote)(backquote)(backquote)"
FenceR == "(backquote)(backquote)(backquote)r"
Bullet == "(U+2022)"

\* file names for which image_path.lower().endswith('.pdf')
PdfNames == {"b.pdf", "c.PDF"}

(***************************************************************************)
(* Sequence helpers (str methods).                                         *)
(***************************************************************************)
Range(s) == {s[k] : k \in 1..Len(s)}

MatchAt(s, i, lit) ==
    /\ i >= 1
    /\ i + Len(lit) - 1 <= Len(s)
    /\ \A k \in 1..Len(lit) : s[i + k - 1] = lit[k]

\* str.find from position from (1-based); 0 when absent
Find(s, lit, from) ==
    LET I == from..(Len(s) - Len(lit) + 1)
    IN IF \E i \in I : MatchAt(s, i, lit)
       THEN CHOOSE i \in I : MatchAt(s, i, lit) /\ \A j \in from..(i - 1) : ~MatchAt(s, j, lit)
       ELSE 0

\* \begin{env} and \end{env}
Begin(env) == <<"\\begin", "{", env, "}">>
End(env) == <<"\\end", "{", env, "}">>

RECURSIVE lstrip(_)
lstrip(s) == IF s # <<>> /\ Head(s) \in WS THEN lstrip(Tail(s)) ELSE s

RECURSIVE rstrip(_)
rstrip(s) == IF s # <<>> /\ s[Len(s)] \in WS THEN rstrip(SubSeq(s, 1, Len(s) - 1)) ELSE s

strip(s) == rstrip(lstrip(s))

startswith(s, lit) == MatchAt(s, 1, lit)

endswith(s, lit) == Len(s) >= Len(lit) /\ MatchAt(s, Len(s) - Len(lit) + 1, lit)

\* s.startswith('\\')
StartsBackslash(s) == s # <<>> /\ Head(s) \in Backslashed

\* s.count(t) for a one-character t
count(s, t) == Cardinality({k \in 1..Len(s) : s[k] = t})

\* str.replace(old, new)
RECURSIVE replace(_, _, _)
replace(s, old, new) ==
    LET i == Find(s, old, 1)
    IN IF i = 0 THEN s
       ELSE SubSeq(s, 1, i - 1) \o new \o replace(SubSeq(s, i + Len(old), Len(s)), old, new)

\* str.split(sep) for a one-lexeme separator: a sequence of texts
RECURSIVE split(_, _)
split(s, sep) ==
    LET i == Find(s, <<sep>>, 1)
    IN IF i = 0 THEN <<s>>
       ELSE <<SubSeq(s, 1, i - 1)>> \o split(SubSeq(s, i + 1, Len(s)), sep)

\* sep.join(parts)
RECURSIVE join(_, _)
join(parts, sep) ==
    IF parts = <<>> THEN <<>>
    ELSE IF Len(parts) = 1 THEN parts[1]
    ELSE parts[1] \o sep \o join(Tail(parts), sep)

\* [x for x in parts if Keep(x)] for a Boolean function keep over the indices
RECURSIVE Filter(_, _, _)
Filter(parts, keep, k) ==
    IF k > Len(parts) THEN <<>>
    ELSE (IF keep[k] THEN <<parts[k]>> ELSE <<>>) \o Filter(parts, keep, k + 1)

SelectParts(parts, Keep(_)) == Filter(parts, [k \in 1..Len(parts) |-> Keep(parts[k])], 1)

MapParts(parts, F(_)) == [k \in 1..Len(parts) |-> F(parts[k])]

(***************************************************************************)
(* The re module: patterns are sequences of elements.                      *)
(*   set S      one lexeme of S            not S     one lexeme outside S  *)
(*   star S     S*  (greedy)               plus S    S+  (greedy)          *)
(*   plusnot S  [^S]+ (greedy)             lazy S    [^S]*? ; lazy {"\n"}  *)
(*   open n / close n   group n            is .*? and lazy {} is .*? under *)
(*   temper lit ((?!lit).)*? under DOTALL  re.DOTALL                       *)
(*   starnot S  [^S]* (greedy)                                             *)
(*   ahead S    (?=S|$)                    rep1 q    (q)+ (greedy)         *)
(***************************************************************************)
Lit(lits) == [k \in 1..Len(lits) |-> [t |-> "set", x |-> {lits[k]}]]
OneOf(S) == <<[t |-> "set", x |-> S]>>
Star(S) == <<[t |-> "star", x |-> S]>>
Plus(S) == <<[t |-> "plus", x |-> S]>>
PlusNot(S) == <<[t |-> "plusnot", x |-> S]>>
StarNot(S) == <<[t |-> "starnot", x |-> S]>>
Dot == <<[t |-> "lazy", x |-> {"\n"}]>>
DotAll == <<[t |-> "lazy", x |-> {}]>>
Temper(lits) == <<[t |-> "temper", x |-> lits]>>
Ahead(S) == <<[t |-> "ahead", x |-> S]>>
Rep1(q) == <<[t |-> "rep1", x |-> q]>>
Grp(n, p) == <<[t |-> "open", x |-> n]>> \o p \o <<[t |-> "close", x |-> n]>>

NoGroups == [n \in 1..3 |-> <<0, -1>>]
Fail == [ok |-> FALSE, e |-> 0, g |-> NoGroups]

\* the number of consecutive lexemes from position i that the element takes
RunLen(s, i, el) ==
    LET Ok(j) == IF el.t \in {"plusnot", "starnot", "lazy"} THEN s[j] \notin el.x
                 ELSE IF el.t = "temper" THEN ~MatchAt(s, j, el.x)
                 ELSE s[j] \in el.x
    IN CHOOSE n \in 0..(Len(s) - i + 1) :
          /\ \A j \in i..(i + n - 1) : Ok(j)
          /\ (i + n > Len(s) \/ ~Ok(i + n))

\* the element that follows p[k], group marks skipped
Following(p, k) ==
    LET K == {j \in (k + 1)..Len(p) : p[j].t \notin {"open", "close"}}
    IN IF K = {} THEN [t |-> "end", x |-> {}]
       ELSE p[CHOOSE j \in K : \A j2 \in K : j <= j2]

\* after n lexemes of the lazy quantifier p[k] the rest of p can match only
\* where the element that follows finds its lexeme
LazyStop(p, k, s, i, n) ==
    LET f == Following(p, k)
    IN f.t = "set" => (i + n <= Len(s) /\ s[i + n] \in f.x)

RECURSIVE M(_, _, _, _, _), Lazy(_, _, _, _, _, _), Greedy(_, _, _, _, _, _, _),
          Rep(_, _, _, _, _, _)
\* match p[k..] against s at position i; groups so far in g
M(p, k, s, i, g) ==
    IF k > Len(p) THEN [ok |-> TRUE, e |-> i - 1, g |-> g]
    ELSE LET el == p[k]
         IN CASE el.t = "set" ->
                    IF i <= Len(s) /\ s[i] \in el.x THEN M(p, k + 1, s, i + 1, g) ELSE Fail
              [] el.t = "not" ->
                    IF i <= Len(s) /\ s[i] \notin el.x THEN M(p, k + 1, s, i + 1, g) ELSE Fail
              [] el.t = "open" -> M(p, k + 1, s, i, [g EXCEPT ![el.x] = <<i, -1>>])
              [] el.t = "close" -> M(p, k + 1, s, i, [g EXCEPT ![el.x] = <<@[1], i - 1>>])
              [] el.t = "ahead" ->
                    IF i > Len(s) \/ s[i] \in el.x \/ (i = Len(s) /\ s[i] = "\n")
                    THEN M(p, k + 1, s, i, g) ELSE Fail
              [] el.t \in {"lazy", "temper"} -> Lazy(p, k, s, i, g, 0)
              [] el.t \in {"star", "starnot"} -> Greedy(p, k, s, i, g, RunLen(s, i, el), 0)
              [] el.t \in {"plus", "plusnot"} -> Greedy(p, k, s, i, g, RunLen(s, i, el), 1)
              [] el.t = "rep1" -> Rep(p, k, s, i, g, 0)

\* a lazy quantifier that has taken n lexemes: it takes as few more as lets
\* the rest of the pattern match
Lazy(p, k, s, i, g, n) ==
    LET C == {m \in n..RunLen(s, i, p[k]) : LazyStop(p, k, s, i, m)}
    IN IF C = {} THEN Fail
       ELSE LET m == CHOOSE m \in C : \A m2 \in C : m <= m2
                r == M(p, k + 1, s, i + m, g)
            IN IF r.ok THEN r ELSE Lazy(p, k, s, i, g, m + 1)

\* a greedy quantifier that takes n lexemes, at least min
Greedy(p, k, s, i, g, n, min) ==
    IF n < min THEN Fail
    ELSE LET r == M(p, k + 1, s, i + n, g)
         IN IF r.ok THEN r ELSE Greedy(p, k, s, i, g, n - 1, min)

\* a greedy repetition of the sub-pattern p[k].x that has matched n times
Rep(p, k, s, i, g, n) ==
    LET r == M(p[k].x, 1, s, i, g)
    IN IF r.ok /\ r.e >= i
       THEN LET more == Rep(p, k, s, r.e + 1, r.g, n + 1)
            IN IF more.ok THEN more ELSE M(p, k + 1, s, r.e + 1, r.g)
       ELSE IF n >= 1 THEN M(p, k + 1, s, i, g) ELSE Fail

\* the first alternative of ps that matches at i (an optional group is written
\* as two alternatives, the one with the group first)
RECURSIVE MatchAlt(_, _, _, _)
MatchAlt(ps, a, s, i) ==
    IF a > Len(ps) THEN Fail
    ELSE LET r == M(ps[a], 1, s, i, NoGroups)
         IN IF r.ok THEN r ELSE MatchAlt(ps, a + 1, s, i)

\* a match of one of ps can start with the lexeme at i (decided from the first
\* element of each alternative when that is a lexeme set)
CanStart(ps, s, i) ==
    \E a \in 1..Len(ps) :
        LET el == IF ps[a][1].t = "open" THEN ps[a][2] ELSE ps[a][1]
        IN el.t \in {"set", "plus"} => s[i] \in el.x

\* the first position from from where a match can start; 0 when there is none
NextStart(ps, s, from) ==
    IF \E i \in from..Len(s) : CanStart(ps, s, i)
    THEN CHOOSE i \in from..Len(s) :
            CanStart(ps, s, i) /\ \A j \in from..(i - 1) : ~CanStart(ps, s, j)
    ELSE 0

\* re.finditer: the non-overlapping matches from position from, left to right
RECURSIVE finditer(_, _, _)
finditer(ps, s, from) ==
    LET i == NextStart(ps, s, from)
    IN IF i = 0 THEN <<>>
       ELSE LET r == MatchAlt(ps, 1, s, i)
            IN IF r.ok /\ r.e >= i
               THEN <<[b |-> i, e |-> r.e, g |-> r.g]>> \o finditer(ps, s, r.e + 1)
               ELSE finditer(ps, s, i + 1)

\* match.group(n); group(0) is the whole match
group(s, m, n) == IF n = 0 THEN SubSeq(s, m.b, m.e) ELSE SubSeq(s, m.g[n][1], m.g[n][2])

\* re.search: a one-element or empty sequence of matches
RECURSIVE search(_, _, _)
search(ps, s, from) ==
    LET i == NextStart(ps, s, from)
    IN IF i = 0 THEN <<>>
       ELSE LET r == MatchAlt(ps, 1, s, i)
            IN IF r.ok /\ r.e >= i THEN <<[b |-> i, e |-> r.e, g |-> r.g]>>
               ELSE search(ps, s, i + 1)

RECURSIVE Splice(_, _, _, _, _)
Splice(s, ms, reps, k, pos) ==
    IF k > Len(ms) THEN SubSeq(s, pos, Len(s))
    ELSE SubSeq(s, pos, ms[k].b - 1) \o reps[k] \o Splice(s, ms, reps, k + 1, ms[k].e + 1)

\* s with each of its matches ms replaced by Repl(s, match)
SubMatches(s, ms, Repl(_, _)) ==
    IF ms = <<>> THEN s ELSE Splice(s, ms, [k \in 1..Len(ms) |-> Repl(s, ms[k])], 1, 1)

\* re.sub(ps, Repl, s) with a replacement function of the text and the match
sub(ps, s, Repl(_, _)) ==
    IF s = <<>> THEN s ELSE SubMatches(s, finditer(ps, s, 1), Repl)

\* re.split(ps, s): the texts between the matches
RECURSIVE Pieces(_, _, _, _)
Pieces(s, ms, k, pos) ==
    IF k > Len(ms) THEN <<SubSeq(s, pos, Len(s))>>
    ELSE <<SubSeq(s, pos, ms[k].b - 1)>> \o Pieces(s, ms, k + 1, ms[k].e + 1)

resplit(ps, s) == Pieces(s, finditer(ps, s, 1), 1, 1)

(***************************************************************************)
(* Metadata and header (lines 16-59).                                      *)
(***************************************************************************)
\* match.group(n) of a search result ms, default when nothing matched
group_or(ms, s, n, default) == IF ms # <<>> THEN group(s, ms[1], n) ELSE default

\* the unbracketed form \cmd{..} is taken too
MetaField_any_form(text, cmd, default) ==
    group_or(search(<<Lit(<<cmd, "[">>) \o Grp(1, Dot) \o Lit(<<"]", "{">>) \o Grp(2, Dot)
                      \o Lit(<<"}">>),
                    Lit(<<cmd, "{">>) \o Grp(2, Dot) \o Lit(<<"}">>)>>, text, 1),
             text, 2, default)

MetaField(text, cmd, default) ==
    group_or(search(<<Lit(<<cmd, "[">>) \o Grp(1, Dot) \o Lit(<<"]", "{">>) \o Grp(2, Dot)
                      \o Lit(<<"}">>)>>, text, 1),
             text, 2, default)

Header(text, ws) ==
    <<"---\ntitle: \"">> \o MetaField(text, "\\title", <<"Untitled Presentation">>)
    \o <<"\"\nauthor: \"">> \o MetaField(text, "\\author", <<"Unknown Author">>)
    \o <<"\"\ndate: \"(backquote)r Sys.Date()(backquote)\"\noutput: \n  ioslides_presentation:\n    toc: true\n    mathjax: true\n">>
    \o (IF ws THEN <<"    widescreen: true\n">> ELSE <<>>)
    \o <<"    highlight: tango\n---\n<style>\narticle {\n  color: #000000;\n}\n</style>\n">>

(***************************************************************************)
(* Sections, listings, verbatim (lines 62-88).                             *)
(***************************************************************************)
section_sub(text) ==
    sub(<<Lit(<<"\\section", "{">>) \o Grp(1, Dot) \o Lit(<<"}">>)>>, text,
        LAMBDA txt, m : <<"##", " ">> \o group(txt, m, 1))

\* code_content.replace('\\', '\\\\'): every backslash character is doubled
RECURSIVE DoubleBackslashes(_)
DoubleBackslashes(s) ==
    IF s = <<>> THEN <<>>
    ELSE (IF Head(s) = "\\\\" THEN <<"\\\\", "\\\\">>
          ELSE IF Head(s) = "\\" THEN <<"\\\\">>
          ELSE IF Head(s) \in Backslashed THEN <<"\\", Head(s)>>
          ELSE <<Head(s)>>) \o DoubleBackslashes(Tail(s))

\* line 69: re.sub(r'(\w+)\$\$(\w+)', r'\1$\2', code_content)
dollar_sub(code_content) ==
    sub(<<Grp(1, Plus(WordChars)) \o Lit(<<"$", "$">>) \o Grp(2, Plus(WordChars))>>,
        code_content, LAMBDA txt, d : group(txt, d, 1) \o <<"$">> \o group(txt, d, 2))

code_listing_replacer(text, m) ==
    <<"\n", FenceR, "\n">> \o dollar_sub(DoubleBackslashes(strip(group(text, m, 1))))
    \o <<"\n", Fence, "\n">>

lstlisting_sub(text) ==
    sub(<<Lit(<<"\\begin", "{", "lstlisting", "}">>) \o Grp(1, DotAll)
          \o Lit(<<"\\end", "{", "lstlisting", "}">>)>>, text,
        code_listing_replacer)

verbatim_sub(text) ==
    sub(<<Lit(<<"\\begin", "{", "verbatim", "}">>) \o Grp(1, DotAll)
          \o Lit(<<"\\end", "{", "verbatim", "}">>)>>, text,
        LAMBDA txt, m : <<"\n", Fence, "\n">> \o strip(group(txt, m, 1)) \o <<"\n", Fence, "\n">>)

(***************************************************************************)
(* fix_font_size_commands (lines 91-125).                                  *)
(***************************************************************************)
FontCmds == {"\\scriptsize", "\\tiny", "\\small", "\\large", "\\Large", "\\LARGE", "\\huge",
             "\\Huge"}

font_size_pattern == <<OneOf(FontCmds) \o Star(WS) \o Lit(<<"{">>)>>

\* the for loop of lines 104-116 from position i at brace_level level: the
\* position of the closing brace, 0 when the text ends first
RECURSIVE MatchingBrace(_, _, _)
MatchingBrace(text, i, level) ==
    IF i > Len(text) THEN 0
    ELSE LET l == IF text[i] = "{" THEN level + 1
                  ELSE IF text[i] = "}" THEN level - 1 ELSE level
         IN IF l = 0 THEN i ELSE MatchingBrace(text, i + 1, l)

\* the closing brace is left in the text
font_command_cut_open(text, cmd_start, brace_start, i) ==
    SubSeq(text, 1, cmd_start - 1) \o SubSeq(text, brace_start + 1, Len(text))

\* the text is returned as it is
font_command_kept(text, cmd_start, brace_start, i) == text

\* lines 118-120: the text without the command whose closing brace is at i
font_command_cut(text, cmd_start, brace_start, i) ==
    SubSeq(text, 1, cmd_start - 1) \o SubSeq(text, brace_start + 1, i - 1)
    \o SubSeq(text, i + 1, Len(text))

(***************************************************************************)
(* table_replacer and the global table passes (lines 134-228).             *)
(***************************************************************************)
tabular_pattern ==
    <<Lit(<<"\\begin", "{", "tabular", "}", "{">>) \o Grp(1, PlusNot({"}"})) \o Lit(<<"}">>)
      \o Grp(2, DotAll) \o Lit(<<"\\end", "{", "tabular", "}">>)>>

caption_pattern == <<Lit(<<"\\caption", "{">>) \o Grp(1, Dot) \o Lit(<<"}">>)>>

\* lines 141-148 (skip_commands) and 156-163 (not skip_commands)
PipeLines(table_content, skip_commands) ==
    <<"\n">>
    \o join(MapParts(SelectParts(split(table_content, "\n"),
                                 LAMBDA line : /\ "|" \in Range(line)
                                               /\ (skip_commands
                                                   => ~StartsBackslash(strip(line)))),
                     strip),
            <<"\n">>)
    \o <<"\n">>

\* '| ' + ' | '.join(cells) + ' |'
md_row(cells) == <<"|", " ">> \o join(cells, <<" ", "|", " ">>) \o <<" ", "|">>

\* '|' + '|'.join(['---' for _ in range(n)]) + '|'
sep_row(n) == <<"|">> \o join([k \in 1..n |-> <<"---">>], <<"|">>) \o <<"|">>

\* the loop over enumerate(rows) of lines 182-198, from index i (0-based)
RECURSIVE markdown_rows(_, _)
\* lines 186-198 for one non-empty row
markdown_row(cells, i) ==
    <<md_row(cells)>> \o (IF i = 0 THEN <<sep_row(Len(cells))>> ELSE <<>>)

markdown_rows(rows, i) ==
    IF i >= Len(rows) THEN <<>>
    ELSE IF strip(rows[i + 1]) = <<>> THEN markdown_rows(rows, i + 1)
    ELSE markdown_row(MapParts(split(rows[i + 1], "&"), strip), i) \o markdown_rows(rows, i + 1)

\* lines 170-201: the Markdown table of a tabular body
md_table_text(tabular_content) ==
    join(markdown_rows(split(replace(replace(replace(tabular_content,
                                                     <<"\\toprule">>, <<>>),
                                             <<"\\midrule">>, <<>>),
                                     <<"\\bottomrule">>, <<>>),
                             "\\\\"),
                       0),
         <<"\n">>)

\* lines 203-209
caption_heading(caption) ==
    IF caption # <<>> THEN <<"**Table:", " ">> \o caption \o <<"**", "\n", "\n">> ELSE <<>>

caption_text(table_content) ==
    caption_heading(group_or(search(caption_pattern, table_content, 1), table_content, 1, <<>>))

\* lines 150-209 (and 393-457): the text a table environment becomes;
\* already_markdown is the test of line 139 (of line 380)
table_text(table_content, tabular_match, whole, already_markdown) ==
    IF already_markdown THEN PipeLines(table_content, TRUE)
    ELSE IF tabular_match = <<>>
    THEN IF "|" \in Range(table_content) THEN PipeLines(table_content, FALSE) ELSE whole
    ELSE <<"\n">> \o caption_text(table_content)
         \o md_table_text(group(table_content, tabular_match[1], 2)) \o <<"\n">>

table_replacer(text, m) ==
    table_text(strip(group(text, m, 1)),
               search(tabular_pattern, strip(group(text, m, 1)), 1),
               group(text, m, 0),
               {"|", "---"} \subseteq Range(group(text, m, 1)))

\* \\begin{table}(.*?)\\end{table}
table_pattern == <<Lit(Begin("table")) \o Grp(1, DotAll) \o Lit(End("table"))>>
\* \\begin{table\s*\[.*?\]}(.*?)\\end{table}
table_bracket_pattern ==
    <<Lit(<<"\\begin", "{", "table">>) \o Star(WS) \o Lit(<<"[">>) \o DotAll \o Lit(<<"]", "}">>)
      \o Grp(1, DotAll) \o Lit(End("table"))>>
\* \\begin{table}(.*?)\\end{table}\s*}
table_brace_pattern ==
    <<Lit(Begin("table")) \o Grp(1, DotAll) \o Lit(End("table")) \o Star(WS) \o Lit(<<"}">>)>>

\* \|\s*---\s*\|\s*---\s*\|
SepUnit ==
    Lit(<<"|">>) \o Star(WS) \o Lit(<<"---">>) \o Star(WS) \o Lit(<<"|">>) \o Star(WS)
    \o Lit(<<"---">>) \o Star(WS) \o Lit(<<"|">>)

\* line 225
redundant_separator_sub(text) ==
    sub(<<Grp(1, SepUnit) \o Rep1(Star(WS) \o Lit(<<"\n">>) \o SepUnit)>>, text,
        LAMBDA txt, m : group(txt, m, 1))

Units == {"cm", "in", "pt", "em", "ex", "mm"}

\* line 228
width_spec_sub(text) ==
    sub(<<Lit(<<"|">>) \o Star(WS) \o Lit(<<"p", "{">>) \o Plus(Digits) \o Lit(<<".">>)
            \o Plus(Digits) \o OneOf(Units) \o Lit(<<"}">>) \o Star(WS),
          Lit(<<"|">>) \o Star(WS) \o Lit(<<"p", "{">>) \o Plus(Digits)
            \o OneOf(Units) \o Lit(<<"}">>) \o Star(WS)>>, text,
        LAMBDA txt, m : <<"|", " ">>)

\* lines 215-228
table_passes(text) ==
    width_spec_sub(
        redundant_separator_sub(
            sub(table_brace_pattern,
                sub(table_bracket_pattern,
                    sub(table_pattern, text, table_replacer),
                    table_replacer),
                table_replacer)))

(***************************************************************************)
(* malformed_table_handler (lines 231-297).                                *)
(***************************************************************************)
\* line 242
LooksLikeRow(line) == count(line, "|") >= 2 /\ ~StartsBackslash(strip(line))

\* the scan of lines 240-255 from line i (0-based): the (start, end) pairs
RECURSIVE table_sections(_, _, _, _)
table_sections(lines, i, in_potential_table, table_start_idx) ==
    IF i >= Len(lines)
    THEN IF in_potential_table THEN <<<<table_start_idx, Len(lines)>>>> ELSE <<>>
    ELSE LET line == lines[i + 1]
         IN IF LooksLikeRow(line)
            THEN table_sections(lines, i + 1, TRUE,
                                IF in_potential_table THEN table_start_idx ELSE i)
            ELSE IF in_potential_table /\ (count(line, "|") < 2 \/ strip(line) = <<>>)
            THEN <<<<table_start_idx, i>>>> \o table_sections(lines, i + 1, FALSE, table_start_idx)
            ELSE table_sections(lines, i + 1, in_potential_table, table_start_idx)

\* the loop of lines 265-287 from line i (0-based) of the section
RECURSIVE cleaned_table(_, _, _)
cleaned_table(table_lines, i, header_separator_added) ==
    IF i >= Len(table_lines) THEN <<>>
    ELSE LET line == table_lines[i + 1]
             c0 == strip(line)
             c1 == IF ~startswith(c0, <<"|">>) THEN <<"|", " ">> \o c0 ELSE c0
             cleaned_line == IF ~endswith(c1, <<"|">>) THEN c1 \o <<" ", "|">> ELSE c1
             add == i = 0 /\ ~header_separator_added
         IN IF c0 = <<>> \/ StartsBackslash(c0)
            THEN cleaned_table(table_lines, i + 1, header_separator_added)
            ELSE <<cleaned_line>>
                 \o (IF add THEN <<sep_row(count(cleaned_line, "|") - 1)>> ELSE <<>>)
                 \o cleaned_table(table_lines, i + 1, header_separator_added \/ add)

\* lines 258-294; the sections do not overlap, so replacing them from the last
\* to the first is replacing each in place
RECURSIVE replace_sections(_, _, _, _)
replace_sections(lines, sections, k, pos) ==
    IF k > Len(sections) THEN SubSeq(lines, pos + 1, Len(lines))
    ELSE LET start == sections[k][1]
             end == sections[k][2]
             table_lines == SubSeq(lines, start + 1, end)
             cleaned == cleaned_table(table_lines, 0, FALSE)
         IN SubSeq(lines, pos + 1, start)
            \o (IF cleaned # <<>> THEN cleaned ELSE table_lines)
            \o replace_sections(lines, sections, k + 1, end)

malformed_table_handler(text) ==
    join(replace_sections(split(text, "\n"), table_sections(split(text, "\n"), 0, FALSE, -1),
                          1, 0),
         <<"\n">>)

(***************************************************************************)
(* Frame segmentation (line 303).                                          *)
(***************************************************************************)
frame_pattern ==
    <<Lit(Begin("frame")) \o DotAll \o Lit(<<"{">>) \o Grp(1, DotAll) \o Lit(<<"}">>)
      \o Grp(2, DotAll) \o Lit(End("frame"))>>

\* re.findall: the (title, content) pairs in document order
frame_pairs(text, ms) ==
    [k \in 1..Len(ms) |-> [title |-> group(text, ms[k], 1), content |-> group(text, ms[k], 2)]]

findall_frames(text) == frame_pairs(text, finditer(frame_pattern, text, 1))

(***************************************************************************)
(* image_replacer (lines 547-578).                                         *)
(***************************************************************************)
FloatChars == Digits \cup {"."}

\* width=([\d.]+)\\textwidth
width_pattern == <<Lit(<<"width=">>) \o Grp(1, Plus(FloatChars)) \o Lit(<<"\\textwidth">>)>>

\* float(width) succeeds: at most one point and at least one digit
float_ok(w) == count(w, ".") <= 1 /\ \E k \in 1..Len(w) : w[k] \in Digits

\* float(width) is Mantissa(w) / 10^FracDigits(w)
RECURSIVE Mantissa(_)
Mantissa(w) ==
    IF w = <<>> THEN 0
    ELSE IF w[Len(w)] = "." THEN Mantissa(SubSeq(w, 1, Len(w) - 1))
    ELSE Mantissa(SubSeq(w, 1, Len(w) - 1)) * 10 + DigitVal(w[Len(w)])

FracDigits(w) == LET d == Find(w, <<".">>, 1) IN IF d = 0 THEN 0 ELSE Len(w) - d

RECURSIVE Pow(_, _)
Pow(b, n) == IF n = 0 THEN 1 ELSE b * Pow(b, n - 1)

\* the number is cut off instead of rounded
format_f0_truncated(num, den, binary_exact, tie_up) == num \div den

\* f"{num/den:.0f}".  The double is formatted to the nearest integer, a tie
\* going to the even one.  When width is not a binary fraction the products
\* float(width) * 100 and * 0.75 are rounded, and for an exact tie of the
\* decimal value the double lies just above or just below it: tie_up tells which.
format_f0(num, den, binary_exact, tie_up) ==
    LET fl == num \div den
        rem == num % den
    IN IF 2 * rem > den THEN fl + 1
       ELSE IF 2 * rem < den THEN fl
       ELSE IF binary_exact THEN (IF fl % 2 = 0 THEN fl ELSE fl + 1)
       ELSE IF tie_up THEN fl + 1 ELSE fl

\* lines 556-561 and the :.0f of lines 565/567
percentage_f0(w, is_widescreen, tie_up) ==
    LET num == Mantissa(w) * 100 * (IF is_widescreen THEN 3 ELSE 1)
        den == Pow(10, FracDigits(w)) * (IF is_widescreen THEN 4 ELSE 1)
    IN format_f0(num, den, Mantissa(w) % Pow(5, FracDigits(w)) = 0, tie_up)

\* \\includegraphics(\[.*?\])?{(.*?)}
includegraphics_pattern ==
    <<Lit(<<"\\includegraphics">>) \o Grp(1, Lit(<<"[">>) \o Dot \o Lit(<<"]">>)) \o Lit(<<"{">>)
        \o Grp(2, Dot) \o Lit(<<"}">>),
      Lit(<<"\\includegraphics", "{">>) \o Grp(2, Dot) \o Lit(<<"}">>)>>

is_pdf(image_path) == image_path # <<>> /\ image_path[Len(image_path)] \in PdfNames

img_tag(image_path, pct) ==
    <<"<img src=\"">> \o image_path \o <<"\" width=\"", pct, "%\">">>

iframe_tag(image_path, pct) ==
    <<"<iframe src=\"">> \o image_path \o <<"\" width=\"", pct, "%\" height=\"500px\">", "</iframe>">>

\* float(width) raises ValueError in image_replacer (line 556)
\* lines 552-554: the width option's number, empty without a width option
width_text(options) == group_or(search(width_pattern, options, 1), options, 1, <<>>)

image_raises(s, m) == width_text(group(s, m, 1)) # <<>> /\ ~float_ok(width_text(group(s, m, 1)))

\* lines 555-571
percentage(width, is_widescreen, tie_up) ==
    IF width # <<>> THEN ToString(percentage_f0(width, is_widescreen, tie_up))
    ELSE IF is_widescreen THEN "80" ELSE "100"

\* lines 573-578
image_tag(image_path, pct) ==
    IF is_pdf(image_path) THEN iframe_tag(image_path, pct) ELSE img_tag(image_path, pct)

image_replacer(s, m, is_widescreen, tie_up) ==
    image_tag(group(s, m, 2), percentage(width_text(group(s, m, 1)), is_widescreen, tie_up))

images_raise(s) ==
    \E m \in Range(finditer(includegraphics_pattern, s, 1)) : image_raises(s, m)

images_sub(s, is_widescreen, tie_up) ==
    sub(includegraphics_pattern, s, LAMBDA txt, m : image_replacer(txt, m, is_widescreen, tie_up))

(***************************************************************************)
(* figure_replacer (lines 509-544).                                        *)
(***************************************************************************)
figure_pattern ==
    <<Lit(<<"\\begin", "{", "figure", "}">>) \o Grp(1, DotAll) \o Lit(<<"\\end", "{", "figure", "}">>)>>

\* lines 510-525: the figure content in which the images are then replaced
\* lines 521-525
figure_parts(caption, no_caption) ==
    [caption |-> caption, centered |-> "\\centering" \in Range(no_caption),
     content |-> replace(no_caption, <<"\\centering">>, <<"<center>">>)]

\* lines 513-518
figure_captioned(figure_content, caption_match) ==
    IF caption_match # <<>>
    THEN figure_parts(group(figure_content, caption_match[1], 1),
                      replace(figure_content,
                              <<"\\caption", "{">> \o group(figure_content, caption_match[1], 1)
                              \o <<"}">>, <<>>))
    ELSE figure_parts(<<>>, figure_content)

figure_body(s, m) ==
    figure_captioned(strip(group(s, m, 1)), search(caption_pattern, strip(group(s, m, 1)), 1))

\* lines 528-532
caption_html(caption) ==
    IF caption # <<>>
    THEN <<"<div style=\"text-align: center; font-style: italic; margin-top: 8px;\">">>
         \o caption \o <<"</div>">>
    ELSE <<>>

\* lines 535-541
figure_html(f, figure_content) ==
    IF f.centered
    THEN <<"<center>", "\n">> \o strip(figure_content) \o <<"\n">> \o caption_html(f.caption)
         \o <<"</center>">>
    ELSE strip(figure_content) \o <<"\n">> \o caption_html(f.caption)

figure_replacer(s, m, is_widescreen, tie_up) ==
    figure_html(figure_body(s, m), images_sub(figure_body(s, m).content, is_widescreen, tie_up))

\* the exception the figure pass (line 544) ends with: figure_replacer reads
\* image_replacer, which is assigned only at line 547 of an iteration
figure_contents(s) == {figure_body(s, m).content : m \in Range(finditer(figure_pattern, s, 1))}

figures_raise(contents, bound) ==
    IF \A c \in contents : finditer(includegraphics_pattern, c, 1) = <<>> THEN "None"
    ELSE IF ~bound THEN "NameError"
    ELSE IF \E c \in contents : images_raise(c) THEN "ValueError"
    ELSE "None"

figures_exc(s, bound) == figures_raise(figure_contents(s), bound)

(***************************************************************************)
(* inline_table_replacer and tabular_replacer (lines 377-503).             *)
(***************************************************************************)
inline_table_replacer(text, m) ==
    table_text(strip(group(text, m, 1)),
               search(tabular_pattern, strip(group(text, m, 1)), 1),
               group(text, m, 0),
               /\ "|" \in Range(group(text, m, 1))
               /\ ("---" \in Range(group(text, m, 1)) \/ count(group(text, m, 1), "|") > 10))

\* \\begin{table.*?}(.*?)\\end{table}
table_any_pattern ==
    <<Lit(<<"\\begin", "{", "table">>) \o DotAll \o Lit(<<"}">>) \o Grp(1, DotAll) \o Lit(End("table"))>>

tabular_replacer(text, m) == <<"\n">> \o md_table_text(group(text, m, 2)) \o <<"\n">>

\* lines 457-503
inline_table_passes(c) ==
    sub(tabular_pattern,
        sub(table_any_pattern,
            sub(table_bracket_pattern,
                sub(table_pattern, c, inline_table_replacer),
                inline_table_replacer),
            inline_table_replacer),
        tabular_replacer)

(***************************************************************************)
(* Links, footnotes, colours (lines 309-316, 349-374).                     *)
(***************************************************************************)
href_pattern ==
    <<Lit(<<"\\href", "{">>) \o Grp(1, Dot) \o Lit(<<"}", "{">>) \o Grp(2, Dot) \o Lit(<<"}">>)>>

href_replacer(s, m) ==
    <<"<a href=\"">> \o group(s, m, 1) \o <<"\" target=\"_blank\">">> \o group(s, m, 2) \o <<"</a>">>

url_pattern == <<Lit(<<"\\url", "{">>) \o Grp(1, PlusNot({"{", "}"})) \o Lit(<<"}">>)>>

footnote_url_pattern ==
    <<Lit(<<"\\footnote", "{", "\\url", "{">>) \o Grp(1, PlusNot({"{", "}"})) \o Lit(<<"}", "}">>)>>

footnote_pattern == <<Lit(<<"\\footnote", "{">>) \o Grp(1, PlusNot({"{", "}"})) \o Lit(<<"}">>)>>

\* lines 128-131
footnote_url_replacer(s, m) ==
    <<" ", "<a href=\"">> \o strip(group(s, m, 1)) \o <<"\" target=\"_blank\">", "↗", "</a>">>

small_span(s, m) == <<" ", "<small>">> \o group(s, m, 1) \o <<"</small>">>

color_span(s, m) ==
    <<"<span style=\"color:">> \o group(s, m, 1) \o <<"\">">> \o group(s, m, 2) \o <<"</span>">>

\* line 350
url_replacer(s, m) ==
    <<"<a href=\"">> \o group(s, m, 1) \o <<"\" target=\"_blank\">">> \o group(s, m, 1) \o <<"</a>">>

\* lines 349-374
link_and_color_passes(c) ==
    sub(<<Lit(<<"\\textbullet">>) \o Star(WS)>>,
        sub(<<Lit(<<"{", "\\color", "{">>) \o Grp(1, PlusNot({"}"})) \o Lit(<<"}">>)
                \o Grp(2, PlusNot({"}"})) \o Lit(<<"}">>)>>,
            sub(<<Lit(<<"\\textcolor", "{">>) \o Grp(1, PlusNot({"}"})) \o Lit(<<"}", "{">>)
                    \o Grp(2, PlusNot({"}"})) \o Lit(<<"}">>)>>,
                sub(<<Lit(<<"\\color", "{">>) \o Grp(1, PlusNot({"}"})) \o Lit(<<"}">>)
                        \o Grp(2, Dot) \o Ahead(Backslashed)>>,
                    sub(footnote_pattern,
                        sub(footnote_url_pattern,
                            sub(url_pattern,
                                sub(href_pattern, c, href_replacer),
                                url_replacer),
                            footnote_url_replacer),
                        small_span),
                    color_span),
                color_span),
            color_span),
        LAMBDA txt, m : <<Bullet, " ">>)

(***************************************************************************)
(* Centering and lists (lines 586-636).                                    *)
(***************************************************************************)
\* lines 586-592
center_passes(c) ==
    replace(replace(sub(<<Lit(Begin("center")) \o Grp(1, DotAll) \o Lit(End("center"))>>, c,
                        LAMBDA txt, m : <<"<center>">> \o strip(group(txt, m, 1))
                                        \o <<"</center>">>),
                    Begin("center"), <<"<center>">>),
            End("center"), <<"</center>">>)

\* \\item\s+
item_pattern == <<Lit(<<"\\item">>) \o Plus(WS)>>

\* lines 602-604 and 620-622: the stripped non-empty item segments
item_segments(items_text) ==
    MapParts(SelectParts(resplit(item_pattern, items_text), LAMBDA item : strip(item) # <<>>),
             strip)

\* lines 605-608
bullet_list(items) ==
    join([k \in 1..Len(items) |-> <<" ", " ", " ", " ", "-", " ">> \o items[k]], <<"\n">>)

nested_itemize_replacer(s, m) ==
    <<"\n">> \o bullet_list(item_segments(strip(group(s, m, 1)))) \o <<"\n">>

\* \\begin{itemize}((?:(?!\\begin{itemize}).)*?)\\end{itemize}
itemize_pattern == <<Lit(Begin("itemize")) \o Grp(1, Temper(Begin("itemize"))) \o Lit(End("itemize"))>>

itemize_sub(c) == sub(itemize_pattern, c, nested_itemize_replacer)

max_nesting == 5

\* the loop of lines 597-614
RECURSIVE itemize_passes(_, _)
itemize_passes(c, n) == IF n = 0 THEN c ELSE itemize_passes(itemize_sub(c), n - 1)

\* lines 623-626
numbered_list(items) ==
    join([k \in 1..Len(items) |-> <<ToString(k), ".", " ">> \o items[k]], <<"\n">>)

enumerate_replacer(s, m) ==
    <<"\n">> \o numbered_list(item_segments(strip(group(s, m, 1)))) \o <<"\n">>

enumerate_sub(c) ==
    sub(<<Lit(Begin("enumerate")) \o Grp(1, DotAll) \o Lit(End("enumerate"))>>, c,
        enumerate_replacer)

\* lines 597-636
list_passes(c) ==
    sub(<<Lit(<<"\\item">>) \o Plus(WS) \o Lit(<<"-">>) \o Plus(WS)>>,
        sub(item_pattern,
            enumerate_sub(itemize_passes(c, max_nesting)),
            LAMBDA txt, m : <<"-", " ">>),
        LAMBDA txt, m : <<"-", " ">>)

(***************************************************************************)
(* Final cleanup (lines 640-656).                                          *)
(***************************************************************************)
\* lines 646 and 647: the match on a line of its own
own_line(s, m) == <<"\n">> \o group(s, m, 0) \o <<"\n">>

\* lines 650 and 651: the indentation before a list marker removed
unindent(s, m) == <<"\n">> \o group(s, m, 1)

cleanup_passes(c) ==
    sub(<<Lit(<<"\\footnote", "{">>) \o StarNot({"}"}) \o Lit(<<"\\url", "{">>)
            \o Grp(1, PlusNot({"}"})) \o Lit(<<"}">>) \o StarNot({"}"}) \o Lit(<<"}">>)>>,
        sub(<<Lit(<<"\n", "\n">>) \o Plus({"\n"})>>,
            sub(<<Lit(<<"\n">>) \o Plus(WS) \o Grp(1, Lit(<<Bullet>>) \o Plus(WS))>>,
                sub(<<Lit(<<"\n">>) \o Plus(WS) \o Grp(1, Lit(<<"-">>) \o Plus(WS))>>,
                    sub(<<Lit(<<"<iframe src=\"">>) \o Dot \o Lit(<<"</iframe>">>)>>,
                        sub(<<Lit(<<"<img src=\"">>) \o Dot \o OneOf(HasGT)>>,
                            sub(<<Lit(<<"<center>">>) \o Grp(1, DotAll)
                                    \o Lit(<<"</center>">>)>>,
                                c,
                                LAMBDA txt, m : <<"\n", "<center>", "\n">> \o group(txt, m, 1)
                                                \o <<"\n", "</center>", "\n">>),
                            own_line),
                        own_line),
                    unindent),
                unindent),
            LAMBDA txt, m : <<"\n", "\n">>),
        footnote_url_replacer)

(***************************************************************************)
(* One iteration of the frame loop (lines 304-659).                        *)
(***************************************************************************)
DivFlex == "<div style=\"display: flex;"

\* line 323
centered_content(content_text) ==
    <<DivFlex, " align-items: center; justify-content: center; height: 400px;\">", "\n",
      "<div style=\"font-size: 36px; text-align: center;\">">>
    \o content_text \o <<"</div>", "\n", "</div>">>

\* the braces around the marker are ignored
is_centered_ignoring_braces(t, c) ==
    SelectSeq(strip(t), LAMBDA x : x \notin {"{", "}"}) = <<"~">> /\ strip(c) # <<>>

\* lines 319 and 327: which branch the title takes
is_centered(t, c) == strip(t) = <<"~">> /\ strip(c) # <<>>

is_blank_title(t) == strip(t) = <<"~">> \/ strip(t) = <<"{", "~", "}">>

\* lines 331-344.  A replacement template with a backslash escape that re
\* does not know makes re.sub raise.
title_heading(t3) == IF strip(t3) # <<>> THEN <<"##", " ">> \o strip(t3) ELSE <<"##">>

\* lines 337-341 with the url of the first footnote
footnote_url_title_sub(t1, url) ==
    sub(<<Lit(<<"\\footnote", "{", "\\url", "{">>) \o PlusNot({"{", "}"}) \o Lit(<<"}", "}">>)>>,
        t1,
        LAMBDA txt, m : <<" ", "<a href=\"">> \o strip(url)
                        \o <<"\" target=\"_blank\">", "↗", "</a>">>)

\* lines 334-344 for the search result fm of line 334
title_footnotes(t1, fm) ==
    [exc |-> IF fm # <<>> /\ Range(group(t1, fm[1], 1)) \cap Backslashed # {}
             THEN "re.error" ELSE "None",
     slide_title |->
        title_heading(sub(footnote_pattern,
                          IF fm # <<>> THEN footnote_url_title_sub(t1, group(t1, fm[1], 1))
                          ELSE t1,
                          small_span))]

title_linked(t1) == title_footnotes(t1, search(footnote_url_pattern, t1, 1))

title_text(t) == title_linked(sub(href_pattern, t, href_replacer))

\* lines 306-347: the title, the centering and the test whether the body is
\* translated
frame_fields(tt, c1, is_c) ==
    [exc |-> tt.exc, slide_title |-> tt.slide_title, content |-> c1, centered |-> is_c,
     translated |-> ~startswith(c1, <<DivFlex>>)]

\* lines 319-344 once the branch is known
frame_branch(t, c0, is_c) ==
    frame_fields(IF is_c \/ is_blank_title(t) THEN [exc |-> "None", slide_title |-> <<"##">>]
                 ELSE title_text(t),
                 IF is_c THEN centered_content(strip(c0)) ELSE c0,
                 is_c)

frame_start(t, c) ==
    frame_branch(t, replace(c, <<"\n", " ", " ", " ", " ", " ", " ">>, <<"\n">>),
                 is_centered(t, replace(c, <<"\n", " ", " ", " ", " ", " ", " ">>, <<"\n">>)))

\* line 544
figures_sub(c, is_widescreen, tie_up) ==
    sub(figure_pattern, c, LAMBDA txt, m : figure_replacer(txt, m, is_widescreen, tie_up))

\* the body is not trimmed
slide_block_untrimmed(st, c) == <<"\n">> \o st \o <<"\n">> \o c \o <<"\n">>

\* line 659
slide_block(st, c) == <<"\n">> \o st \o <<"\n">> \o strip(c) \o <<"\n">>

(***************************************************************************)
(* Input documents.                                                        *)
(***************************************************************************)
MaxFrames == 2
MaxWidthLen == 4

Frame(t, b) == Begin("frame") \o <<"{">> \o t \o <<"}">> \o b \o End("frame") \o <<"\n">>

Itemize(items) == Begin("itemize") \o <<"\n">> \o items \o End("itemize")
Enumerate(items) == Begin("enumerate") \o <<"\n">> \o items \o End("enumerate")
Item(text) == <<"\\item", " ">> \o text \o <<"\n">>

Graphics(w, path) ==
    <<"\\includegraphics", "[", "width=">> \o w \o <<"\\textwidth", "]", "{", path, "}">>

Figure(body) ==
    <<"\\begin", "{", "figure", "}", "\n">> \o body
    \o <<"\n", "\\caption", "{", "c", "}", "\n", "\\end", "{", "figure", "}">>

PipeRow(a, b) == <<a, " ", "|", " ", b, " ", "|", " ", "c">>
FencedRow(a, b) == <<"|", " ", a, " ", "|", " ", b, " ", "|">>

\* the frames the documents are made of: <<title, body>>
FrameLibrary ==
    { <<<<"Overview">>, <<"\n">> \o Itemize(Item(<<"a">>) \o Item(<<"b">>)) \o <<"\n">>>>,
      <<<<"~">>, <<"Thank", " ", "you">>>>,
      <<<<" ", "~">>, <<"\n", "x", "\n">>>>,
      <<<<"~">>, <<"\n">>>>,
      <<<<"{", "~">>, <<"}", "x">>>>,
      <<<<"T">>, <<"x">>>>,
      <<<<>>, <<DivFlex, "x">>>>,
      <<<<"T">>, <<"\n">> \o Figure(Graphics(<<"0", ".", "5">>, "a.png")) \o <<"\n">>>>,
      <<<<"T">>, Graphics(<<"1", ".", "2", ".", "5">>, "a.png")>>,
      <<<<"T">>, <<"\n">> \o PipeRow("a", "b") \o <<"\n">> \o PipeRow("d", "e") \o <<"\n">>>>,
      <<<<"T">>, <<"\n">> \o FencedRow("a", "b") \o <<"\n">> \o sep_row(2) \o <<"\n">>
                 \o FencedRow("d", "e") \o <<"\n">>>>,
      <<<<"T">>, <<"\n">> \o Enumerate(Item(<<"x">>) \o Item(<<"y">>)) \o <<"\n">>>>,
      <<<<"T">>, <<"\n">> \o Itemize(Item(<<"a">>) \o Enumerate(Item(<<"x">>) \o Item(<<"y">>))
                                     \o <<"\n">>) \o <<"\n">>>>,
      <<<<"T">>, <<"\n">> \o Enumerate(Item(<<"a">>) \o Itemize(Item(<<"x">>)) \o <<"\n">>
                                       \o Item(<<"b">>)) \o <<"\n">>>>,
      <<<<"T">>, <<"\n">> \o Itemize(Item(<<"a">>) \o Itemize(Item(<<"x">>) \o Item(<<"y">>))
                                     \o <<"\n">> \o Item(<<"b">>)) \o <<"\n">>>>,
      <<<<"T">>, <<"\n">> \o Itemize(Item(<<"a">>) \o <<"\\item", "\n">>) \o <<"\n">>>>
    }

\* the frames that documents of several frames are made of
SequenceLibrary ==
    { <<<<"Overview">>, <<"\n">> \o Itemize(Item(<<"a">>) \o Item(<<"b">>)) \o <<"\n">>>>,
      <<<<"~">>, <<"Thank", " ", "you">>>>,
      <<<<"T">>, <<"x">>>>,
      <<<<"T">>, <<"\n">> \o Figure(Graphics(<<"0", ".", "5">>, "a.png")) \o <<"\n">>>> }

\* the sequences of exactly n frames of the sequence library
RECURSIVE FrameSeqs(_)
FrameSeqs(n) ==
    IF n = 0 THEN {<<>>}
    ELSE {Frame(f[1], f[2]) \o rest : f \in SequenceLibrary, rest \in FrameSeqs(n - 1)}

Preambles == {<<>>, <<"\\section", "{", "Intro", "}", "\n">>}

Docs ==
    {pre \o Frame(f[1], f[2]) : pre \in Preambles, f \in FrameLibrary}
    \cup {pre \o fs : pre \in Preambles, fs \in UNION {FrameSeqs(n) : n \in 2..MaxFrames}}

\* the width options: the strings over WidthChars of length 1..n
WidthChars == {"0", "1", "5", "7", "."}

RECURSIVE WidthStrings(_)
WidthStrings(n) ==
    IF n = 0 THEN {<<>>}
    ELSE {<<c>> \o w : c \in WidthChars, w \in WidthStrings(n - 1)} \cup WidthStrings(n - 1)

ImagePaths == {"a.png", "b.pdf"}

WidthDocs ==
    {Frame(<<"T">>, Graphics(w, path)) : w \in WidthStrings(MaxWidthLen) \ {<<>>},
                                          path \in ImagePaths}

\* the forms of a metadata command: absent, unbracketed, bracketed
MetaCommands(cmd, v) ==
    {<<>>, <<cmd, "{", v, "}", "\n">>, <<cmd, "[", "s", "]", "{", v, "}", "\n">>}

\* documents with and without title, author and institute commands
MetaDocs ==
    {t \o a \o i \o Frame(<<"T">>, <<"x">>) :
        t \in MetaCommands("\\title", "X"), a \in MetaCommands("\\author", "A"),
        i \in {<<>>, <<"\\institute", "[", "s", "]", "{", "I", "}", "\n">>}}

\* frames with a footnote: around a bare URL, and with plain text
FootnoteDocs ==
    {Frame(<<"T">>, <<"see", "\\footnote", "{", "\\url", "{", "u.org", "}", "}", "\n">>),
     Frame(<<"T">>, <<"see", "\\footnote", "{", "note", "}", "\n">>),
     Frame(<<"~">>, <<"see", "\\footnote", "{", "\\url", "{", "u.org", "}", "}", "\n">>)}

\* frame bodies with size commands: closed, with a space before the brace,
\* with nested groups and commands, unclosed, and with a command that gets
\* its brace only when another command is removed
FontBodies ==
    { <<"\\small", "{", "a", "}">>,
      <<"\\small", " ", "{", "a", "}", "b">>,
      <<"\\Large", "{", "a", "{", "b", "}", "c", "}">>,
      <<"\\small", "{", "\\tiny", "{", "a", "}", "}">>,
      <<"\\small", "{", "a", "}", "\\tiny", "{", "b">>,
      <<"\\tiny", "{", "b", " ", "\\small", "{", "a", "}">>,
      <<"\\small", "\\tiny", "{", "}", "{", "b", "}">>,
      <<"\\small", "\\tiny", "{", "}", "{", "b">> }

FontDocs == {Frame(<<"T">>, b \o <<"\n">>) : b \in FontBodies}

Tabular(body) ==
    Begin("tabular") \o <<"{", "ll", "}">> \o body \o End("tabular")

\* tabular bodies: rows on their lines, with rules, and with a row terminator
\* that only whitespace precedes
TabularBodies ==
    { <<"\n", "a", " ", "&", " ", "b", " ", "\\\\", "\n", "c", " ", "&", " ", "d", " ", "\\\\", "\n">>,
      <<"\n", "\\toprule", "\n", "a", " ", "&", " ", "b", " ", "\\\\", "\n", "\\midrule", "\n",
        "c", " ", "&", " ", "d", " ", "\\\\", "\n", "\\bottomrule", "\n">>,
      <<"\n", "\\\\", "\n", "a", " ", "&", " ", "b", " ", "\\\\", "\n", "c", " ", "&", " ", "d", "\n">> }

\* a tabular in a table environment, and a bare one
TableDocs ==
    {Frame(<<"T">>, <<"\n">> \o Begin("table") \o <<"\n">> \o Tabular(b) \o <<"\n">>
                    \o End("table") \o <<"\n">>) : b \in TabularBodies}
    \cup {Frame(<<"T">>, <<"\n">> \o Tabular(b) \o <<"\n">>) : b \in TabularBodies}

\* a frame block without title group
UntitledFrame(body) == Begin("frame") \o <<"\n">> \o body \o <<"\n">> \o End("frame") \o <<"\n">>

\* frame blocks with and without title group, alone and one after the other
SegmentDocs ==
    { UntitledFrame(<<"x">>),
      UntitledFrame(<<"x">>) \o Frame(<<"T">>, <<"y">>),
      Frame(<<"T">>, <<"y">>) \o UntitledFrame(<<"x">>),
      Frame(<<"S">>, <<"x">>) \o Frame(<<"T">>, <<"y">>) }

\* a bullet command in a centered frame, in a plain frame, and in a frame
\* whose body starts as the centered div does
ShortCircuitDocs ==
    { Frame(<<"~">>, <<"\\textbullet", " ", "x">>),
      Frame(<<"T">>, <<"\\textbullet", " ", "x">>),
      Frame(<<"T">>, <<DivFlex, "\">", "\\textbullet", " ", "x", "</div>">>) }

\* the contents of verbatim environments: plain text, an item marker, pipe
\* characters, a size command, a hyperlink and an image command
VerbatimContents ==
    { <<"x", " ", "=", " ", "1">>,
      <<"\\item", " ", "x">>,
      <<"a", " ", "|", " ", "b", " ", "|", " ", "c">>,
      <<"\\small", "{", "a", "}">>,
      <<"\\href", "{", "u.org", "}", "{", "t", "}">>,
      <<"\\includegraphics", "{", "a.png", "}">> }

VerbatimDocs ==
    {Frame(<<"T">>, <<"\n">> \o Begin("verbatim") \o <<"\n">> \o v \o <<"\n">> \o End("verbatim")
                    \o <<"\n">>) : v \in VerbatimContents}

TextDocs ==
    MetaDocs \cup FootnoteDocs \cup FontDocs \cup TableDocs \cup SegmentDocs
    \cup ShortCircuitDocs \cup VerbatimDocs

(***************************************************************************)
(* The call beamer_to_rmarkdown(latex_text, widescreen), statement by      *)
(* statement.                                                              *)
(***************************************************************************)
InitWith(D) ==
    /\ input_text \in D
    /\ latex_text = input_text
    /\ widescreen \in BOOLEAN
    /\ rmd_content = <<>>
    /\ frames = <<>>
    /\ idx = 0
    /\ slide_title = <<>>
    /\ content = <<>>
    /\ centered = FALSE
    /\ translated = FALSE
    /\ slides = <<>>
    /\ image_replacer_bound = FALSE
    /\ exc = "None"
    /\ pc = "header"

Init == InitWith(Docs)

InitWidth == InitWith(WidthDocs)

InitText == InitWith(TextDocs)

\* lines 16-59
BuildHeader ==
    /\ pc = "header"
    /\ rmd_content' = Header(latex_text, widescreen)
    /\ pc' = "sections"
    /\ UNCHANGED <<input_text, latex_text, widescreen, frames, idx, slide_title, content,
                   centered, translated, slides, image_replacer_bound, exc>>

GlobalPass(at, F(_), next) ==
    /\ pc = at
    /\ latex_text' = F(latex_text)
    /\ pc' = next
    /\ UNCHANGED <<input_text, widescreen, rmd_content, frames, idx, slide_title, content,
                   centered, translated, slides, image_replacer_bound, exc>>

\* line 62
Sections == GlobalPass("sections", section_sub, "listings")

\* lines 79-88
Listings == GlobalPass("listings", LAMBDA t : verbatim_sub(lstlisting_sub(t)), "fontsize")

\* lines 94-125: one iteration of the while loop of fix_font_size_commands,
\* or its end
FontSizes ==
    /\ pc = "fontsize"
    /\ \E ms \in {search(font_size_pattern, latex_text, 1)} :
          IF ms = <<>>
          THEN /\ latex_text' = latex_text
               /\ pc' = "tables"
          ELSE \E i \in {MatchingBrace(latex_text, ms[1].e + 1, 1)} :
                  IF i = 0
                  THEN /\ latex_text' = latex_text
                       /\ pc' = "tables"
                  ELSE /\ latex_text' = font_command_cut(latex_text, ms[1].b, ms[1].e, i)
                       /\ pc' = "fontsize"
    /\ UNCHANGED <<input_text, widescreen, rmd_content, frames, idx, slide_title, content,
                   centered, translated, slides, image_replacer_bound, exc>>

\* lines 215-228
Tables == GlobalPass("tables", table_passes, "malformed")

\* line 300
MalformedTables == GlobalPass("malformed", malformed_table_handler, "segment")

\* line 303
Segment ==
    /\ pc = "segment"
    /\ frames' = findall_frames(latex_text)
    /\ idx' = 1
    /\ pc' = "loop"
    /\ UNCHANGED <<input_text, latex_text, widescreen, rmd_content, slide_title, content,
                   centered, translated, slides, image_replacer_bound, exc>>

\* an exception leaves the call
Raise(e) ==
    /\ exc' = e
    /\ pc' = "raised"

\* lines 304-347: the head of an iteration
FrameStart ==
    /\ pc = "loop"
    /\ idx <= Len(frames)
    /\ \E r \in {frame_start(frames[idx].title, frames[idx].content)} :
          IF r.exc # "None"
          THEN /\ Raise(r.exc)
               /\ UNCHANGED <<slide_title, content, centered, translated>>
          ELSE /\ slide_title' = r.slide_title
               /\ content' = r.content
               /\ centered' = r.centered
               /\ translated' = r.translated
               /\ pc' = IF r.translated THEN "links" ELSE "assemble"
               /\ exc' = exc
    /\ UNCHANGED <<input_text, latex_text, widescreen, rmd_content, frames, idx, slides,
                   image_replacer_bound>>

FramePass(at, F(_), next) ==
    /\ pc = at
    /\ content' = F(content)
    /\ pc' = next
    /\ UNCHANGED <<input_text, latex_text, widescreen, rmd_content, frames, idx, slide_title,
                   centered, translated, slides, image_replacer_bound, exc>>

\* lines 349-374
Links == FramePass("links", link_and_color_passes, "frame_tables")

\* lines 377-506
FrameTables == FramePass("frame_tables", inline_table_passes, "frame_malformed")

\* line 506
FrameMalformedTables == FramePass("frame_malformed", malformed_table_handler, "figures")

\* the rounding of a width that is an exact tie is known only when the body
\* has a width option
Ties == IF "width=" \in Range(content) THEN BOOLEAN ELSE {FALSE}

\* lines 509-544: figure_replacer is called while image_replacer may have no
\* value yet
Figures ==
    /\ pc = "figures"
    /\ \E e \in {figures_exc(content, image_replacer_bound)} :
          IF e # "None"
          THEN /\ Raise(e)
               /\ UNCHANGED content
          ELSE /\ \E tie_up \in Ties :
                    content' = figures_sub(content, widescreen, tie_up)
               /\ pc' = "images"
               /\ exc' = exc
    /\ UNCHANGED <<input_text, latex_text, widescreen, rmd_content, frames, idx, slide_title,
                   centered, translated, slides, image_replacer_bound>>

\* lines 547-583: image_replacer is defined, then applied
Images ==
    /\ pc = "images"
    /\ image_replacer_bound' = TRUE
    /\ IF images_raise(content)
       THEN /\ Raise("ValueError")
            /\ UNCHANGED content
       ELSE /\ \E tie_up \in Ties :
                 content' = images_sub(content, widescreen, tie_up)
            /\ pc' = "lists"
            /\ exc' = exc
    /\ UNCHANGED <<input_text, latex_text, widescreen, rmd_content, frames, idx, slide_title,
                   centered, translated, slides>>

\* lines 586-636
Lists == FramePass("lists", LAMBDA c : list_passes(center_passes(c)), "cleanup")

\* lines 640-656
Cleanup == FramePass("cleanup", cleanup_passes, "assemble")

\* line 659: the slide is appended and the loop goes on
Assemble ==
    /\ pc = "assemble"
    /\ rmd_content' = rmd_content \o slide_block(slide_title, content)
    /\ slides' = Append(slides, [slide_title |-> slide_title, content |-> content,
                                 centered |-> centered, translated |-> translated])
    /\ idx' = idx + 1
    /\ pc' = "loop"
    /\ UNCHANGED <<input_text, latex_text, widescreen, frames, slide_title, content,
                   centered, translated, image_replacer_bound, exc>>

\* line 661
Return ==
    /\ pc = "loop"
    /\ idx > Len(frames)
    /\ pc' = "done"
    /\ UNCHANGED <<input_text, latex_text, widescreen, rmd_content, frames, idx, slide_title,
                   content, centered, translated, slides, image_replacer_bound, exc>>

Next ==
    \/ BuildHeader
    \/ Sections
    \/ Listings
    \/ FontSizes
    \/ Tables
    \/ MalformedTables
    \/ Segment
    \/ FrameStart
    \/ Links
    \/ FrameTables
    \/ FrameMalformedTables
    \/ Figures
    \/ Images
    \/ Lists
    \/ Cleanup
    \/ Assemble
    \/ Return

Spec == Init /\ [][Next]_vars

SpecWidth == InitWidth /\ [][Next]_vars

SpecText == InitText /\ [][Next]_vars

\* the while loop of fix_font_size_commands runs on: an iteration that can be
\* taken is taken
SpecTextFair == SpecText /\ WF_vars(FontSizes)

(***************************************************************************)
(* Reading a document and its output: what the properties speak about.     *)
(***************************************************************************)
\* the frames of the input document, before any global pass
SourceFrames == findall_frames(input_text)

Lines(text) == split(text, "\n")

IsBegin(s, i, env) == MatchAt(s, i, <<"\\begin", "{", env, "}">>)
IsEnd(s, i, env) == MatchAt(s, i, <<"\\end", "{", env, "}">>)
OpensList(s, i) == IsBegin(s, i, "itemize") \/ IsBegin(s, i, "enumerate")
ClosesList(s, i) == IsEnd(s, i, "itemize") \/ IsEnd(s, i, "enumerate")

HasEnvironment(s, env) == \E i \in 1..Len(s) : IsBegin(s, i, env)

\* the nesting level of list environments at lexeme i: a \begin is at the
\* level of its environment, its \end one below
Level(s, i) ==
    Cardinality({j \in 1..i : OpensList(s, j)}) - Cardinality({j \in 1..i : ClosesList(s, j)})

\* the list environments are balanced
Balanced(s) == Level(s, Len(s)) = 0 /\ \A i \in 1..Len(s) : Level(s, i) >= 0

\* the deepest nesting of list environments
ListDepth(s) == CHOOSE d \in 0..Len(s) :
                   /\ \A i \in 1..Len(s) : Level(s, i) <= d
                   /\ d = 0 \/ \E i \in 1..Len(s) : Level(s, i) = d

\* the \begin of the list environment that the \item at j belongs to
EnvOf(s, j) ==
    LET B == {b \in 1..(j - 1) : OpensList(s, b) /\ Level(s, b) = Level(s, j)}
    IN IF B = {} THEN 0 ELSE CHOOSE b \in B : \A b2 \in B : b2 <= b

\* the item segment of the \item at j: up to the next \item or the \end of
\* its environment; it is non-empty when it holds more than white space
NonEmptyItem(s, j) ==
    LET Stops == {e \in (j + 1)..Len(s) :
                     \/ s[e] = "\\item" /\ Level(s, e) = Level(s, j)
                     \/ ClosesList(s, e) /\ Level(s, e) = Level(s, j) - 1}
        stop == IF Stops = {} THEN Len(s) + 1 ELSE CHOOSE e \in Stops : \A e2 \in Stops : e <= e2
    IN \E t \in (j + 1)..(stop - 1) : s[t] \notin WS

\* the non-empty item segments of the list environment that begins at b
ItemsOfEnvAt(s, b) ==
    Cardinality({j \in 1..Len(s) : s[j] = "\\item" /\ EnvOf(s, j) = b /\ NonEmptyItem(s, j)})

\* the labels 1..N of the enumerate environments from position i on, in
\* document order
RECURSIVE ExpectedLabels(_, _)
ExpectedLabels(s, i) ==
    LET B == {b \in i..Len(s) : IsBegin(s, b, "enumerate")}
    IN IF B = {} THEN <<>>
       ELSE LET b == CHOOSE b \in B : \A b2 \in B : b <= b2
            IN [n \in 1..ItemsOfEnvAt(s, b) |-> ToString(n)] \o ExpectedLabels(s, b + 1)

\* the non-empty item segments of all the itemize environments
TotalItems(s) ==
    Cardinality({j \in 1..Len(s) : /\ s[j] = "\\item"
                                   /\ IsBegin(s, EnvOf(s, j), "itemize")
                                   /\ NonEmptyItem(s, j)})

\* the labels of the numbered lines "N. ..." of an output, in order
NumberLabels(out) ==
    LET ls == Lines(out)
        numbered == SelectParts(ls, LAMBDA l : /\ Len(l) >= 3
                                                /\ l[1] \in {ToString(n) : n \in 1..9}
                                                /\ l[2] = "."
                                                /\ l[3] = " ")
    IN [k \in 1..Len(numbered) |-> numbered[k][1]]

\* the number of dash-bullet lines of an output
DashLines(out) ==
    LET ls == Lines(out)
    IN Cardinality({k \in 1..Len(ls) : ls[k] # <<>> /\ ls[k][1] = "-"})

\* a header separator row of a pipe table
IsSeparatorLine(line) ==
    /\ "---" \in Range(line)
    /\ Range(line) \subseteq {"|", "---"}

IsPipeLine(line) == count(line, "|") >= 2

\* a frame body that is a run of pipe-delimited lines without separator row
\* and without table environment
BarePipeRun(body) ==
    LET ls == Lines(strip(body))
    IN /\ strip(body) # <<>>
       /\ \A k \in 1..Len(ls) : /\ IsPipeLine(ls[k])
                                /\ ~IsSeparatorLine(ls[k])
                                /\ ~StartsBackslash(strip(ls[k]))
       /\ Range(body) \cap {"\\begin", "\\end", "table", "tabular"} = {}

\* a text without LaTeX table markers whose pipe tables are all well formed:
\* fenced rows, the separator row under the first row and nowhere else
CleanPipeTable(text) ==
    LET ls == Lines(text)
        pipe(k) == k >= 1 /\ k <= Len(ls) /\ IsPipeLine(ls[k])
        first(k) == pipe(k) /\ ~pipe(k - 1)
    IN /\ Range(text) \cap {"table", "tabular", "\\hline", "&"} = {}
       /\ \E k \in 1..Len(ls) : pipe(k)
       /\ \A k \in 1..Len(ls) :
            pipe(k) => /\ ls[k][1] = "|" /\ ls[k][Len(ls[k])] = "|"
                       /\ IsSeparatorLine(ls[k]) <=> (pipe(k - 1) /\ first(k - 1))
                       /\ first(k) => pipe(k + 1)

(***************************************************************************)
(* The properties.                                                         *)
(***************************************************************************)
\* C1: for every document and either value of widescreen the call completes
\* and returns: no statement of beamer_to_rmarkdown ever raises.
C1_NeverRaises == pc # "raised" /\ exc = "None"

\* the document of C2: \section{Intro}, the frame Overview with an itemize of
\* two items, and the frame ~ with the body Thank you
C2Document ==
    <<"\\section", "{", "Intro", "}", "\n">>
    \o Frame(<<"Overview">>, <<"\n">> \o Itemize(Item(<<"a">>) \o Item(<<"b">>)) \o <<"\n">>)
    \o Frame(<<"~">>, <<"Thank", " ", "you">>)

\* the parts occur in text one after the other, from position from on
RECURSIVE InOrder(_, _, _)
InOrder(text, parts, from) ==
    \/ parts = <<>>
    \/ LET i == Find(text, Head(parts), from)
       IN i # 0 /\ InOrder(text, Tail(parts), i + Len(Head(parts)))

\* C2: the output for the document of C2 contains, in this order, the front
\* matter, the heading ## Intro, the heading ## Overview followed by exactly
\* two dash-bulleted lines, and an empty ## heading followed by the centered
\* div that holds Thank you.
C2_RoundTrip ==
    (pc = "done" /\ input_text = C2Document) =>
        InOrder(rmd_content,
                <<Header(input_text, widescreen),
                  <<"##", " ", "Intro", "\n">>,
                  <<"##", " ", "Overview", "\n", "-", " ", "a", "\n", "-", " ", "b", "\n", "\n">>,
                  <<"##", "\n", DivFlex,
                    " align-items: center; justify-content: center; height: 400px;\">", "\n",
                    "<div style=\"font-size: 36px; text-align: center;\">",
                    "Thank", " ", "you", "</div>", "\n", "</div>">>>>,
                1)

\* C3: the slide of a translated frame whose source body is a run of
\* pipe-delimited lines without separator row holds a pipe table with exactly
\* one separator row, directly under the first content row.
C3_OneSeparatorRow ==
    \A k \in 1..Len(slides) :
        (/\ Len(SourceFrames) = Len(frames)
         /\ slides[k].translated
         /\ BarePipeRun(SourceFrames[k].content)) =>
            LET ls == Lines(strip(slides[k].content))
            IN /\ Len(ls) = Len(Lines(strip(SourceFrames[k].content))) + 1
               /\ IsPipeLine(ls[1]) /\ ~IsSeparatorLine(ls[1])
               /\ IsSeparatorLine(ls[2])
               /\ Cardinality({j \in 1..Len(ls) : IsSeparatorLine(ls[j])}) = 1

\* C4: the table stage (the structured passes, then the recovery pass) leaves
\* a text unchanged that has no LaTeX table marker and whose pipe tables have
\* their separator row under the first row.
C4_TableStageIdempotent ==
    [][(pc \in {"tables", "malformed"} /\ CleanPipeTable(latex_text))
           => latex_text' = latex_text]_vars

\* C5: in the slide of a translated frame the numbered lines are, for every
\* enumerate environment of the body in document order, 1..N with N the
\* number of non-empty item segments of that environment.
C5_EnumerateNumbering ==
    \A k \in 1..Len(slides) :
        (/\ slides[k].translated
         /\ HasEnvironment(frames[k].content, "enumerate")
         /\ Balanced(frames[k].content)) =>
            NumberLabels(slides[k].content) = ExpectedLabels(frames[k].content, 1)

\* C6: in the slide of a translated frame whose itemize environments are
\* balanced and at most max_nesting deep no itemize marker remains, and there
\* are as many dash-bullet lines as non-empty item segments on all levels.
C6_ItemizeResolved ==
    \A k \in 1..Len(slides) :
        (/\ slides[k].translated
         /\ HasEnvironment(frames[k].content, "itemize")
         /\ ~HasEnvironment(frames[k].content, "enumerate")
         /\ Balanced(frames[k].content)
         /\ ListDepth(frames[k].content) <= max_nesting) =>
            /\ "itemize" \notin Range(slides[k].content)
            /\ DashLines(slides[k].content) = TotalItems(frames[k].content)

\* a frame body that is one image-inclusion command with a width option
IsGraphics(body) ==
    /\ Len(body) >= 9
    /\ body = Graphics(SubSeq(body, 4, Len(body) - 5), body[Len(body) - 1])

WidthOf(body) == SubSeq(body, 4, Len(body) - 5)

\* the tag emitted for the image path with the width attribute n percent
TagWith(path, n) ==
    IF path \in PdfNames
    THEN <<"<iframe src=\"", path, "\" width=\"", ToString(n), "%\" height=\"500px\">",
           "</iframe>">>
    ELSE <<"<img src=\"", path, "\" width=\"", ToString(n), "%\">">>

\* n is an integer nearest to num / den
Nearest(n, num, den) ==
    /\ 2 * (n * den - num) <= den
    /\ 2 * (num - n * den) <= den

\* C7: for the width option p\textwidth with p a well-formed decimal the
\* width attribute is an integer: 100 * p when widescreen is off and 75 * p
\* when it is on, rounded to the nearest integer percent; 0.5 gives 50 and 38.
C7_WidthPercent ==
    \A k \in 1..Len(slides) :
        (IsGraphics(frames[k].content) /\ float_ok(WidthOf(frames[k].content))) =>
            LET w == WidthOf(frames[k].content)
                path == frames[k].content[Len(frames[k].content) - 1]
                num == Mantissa(w) * (IF widescreen THEN 75 ELSE 100)
                den == Pow(10, FracDigits(w))
            IN /\ \E n \in {num \div den, num \div den + 1} :
                    /\ strip(slides[k].content) = TagWith(path, n)
                    /\ Nearest(n, num, den)
               /\ w = <<"0", ".", "5">> =>
                    strip(slides[k].content) = TagWith(path, IF widescreen THEN 38 ELSE 50)

\* the case of C7: the width 0.5\textwidth has been converted under widescreen
C7_Witness ==
    /\ pc = "done"
    /\ widescreen
    /\ Len(slides) = 1
    /\ IsGraphics(frames[1].content)
    /\ WidthOf(frames[1].content) = <<"0", ".", "5">>
    /\ "38" \in Range(slides[1].content)

\* the slide of frame k begins with the centering div and the frame did not
\* bring it along
CenteredDiv(k) ==
    /\ startswith(slides[k].content, <<DivFlex>>)
    /\ DivFlex \notin Range(frames[k].content)

\* C8: the centering branch is taken only when the trimmed title token is the
\* one lexeme ~; a frame written with the title {~}, whose stored token is
\* not the bare marker, and a non-empty body never gets the centered div.
C8_CenteringOnlyForBareMarker ==
    \A k \in 1..Len(slides) :
        /\ (slides[k].centered \/ CenteredDiv(k)) => strip(frames[k].title) = <<"~">>
        /\ ("{" \in Range(frames[k].title) /\ strip(frames[k].content) # <<>>) =>
               ~slides[k].centered /\ ~CenteredDiv(k)

\* the case of C8: a frame written with the title {~} and a non-empty body
\* has been emitted
C8_Witness ==
    \E k \in 1..Len(slides) :
        /\ frames[k].title = <<"{", "~">>
        /\ strip(frames[k].content) # <<>>
        /\ ~slides[k].centered

\* the frame (t, c) as the first frame of a call, image_replacer not yet
\* bound, ends without exception and with the slide (st, out)
AloneGives(t, c, ws, st, out) ==
    \E r \in {frame_start(t, c)} :
        /\ r.exc = "None"
        /\ r.slide_title = st
        /\ IF ~r.translated THEN r.content = out
           ELSE \E c1 \in {link_and_color_passes(r.content)} :
                \E c2 \in {malformed_table_handler(inline_table_passes(c1))} :
                    /\ figures_exc(c2, FALSE) = "None"
                    /\ \E tie_up \in BOOLEAN :
                       \E c3 \in {figures_sub(c2, ws, tie_up)} :
                           /\ ~images_raise(c3)
                           /\ \E c4 \in {images_sub(c3, ws, tie_up)} :
                              \E c5 \in {list_passes(center_passes(c4))} :
                                  cleanup_passes(c5) = out

\* C9: the slide emitted for a frame depends only on the frame and on
\* widescreen: wherever the frame stands in the document, its slide is the
\* one the frame gets as the first frame of a call.
C9_FrameIndependence ==
    \A k \in 1..Len(slides) :
        AloneGives(frames[k].title, frames[k].content, widescreen,
                   slides[k].slide_title, slides[k].content)

\* the slide blocks of the slides from k on, one after the other
RECURSIVE Blocks(_, _)
Blocks(sl, k) ==
    IF k > Len(sl) THEN <<>>
    ELSE <<"\n">> \o sl[k].slide_title \o <<"\n">> \o strip(sl[k].content) \o <<"\n">>
         \o Blocks(sl, k + 1)

\* C10: the output is the header block followed, for each segmented frame in
\* document order, by a newline, the slide-title line, a newline, the trimmed
\* body and a newline; there are as many blocks as frames and nothing else.
C10_Assembly ==
    /\ pc \in {"loop", "done"} =>
          /\ rmd_content = Header(input_text, widescreen) \o Blocks(slides, 1)
          /\ Len(slides) = idx - 1
          /\ \A k \in 1..Len(slides) :
                slides[k].slide_title = frame_start(frames[k].title, frames[k].content).slide_title
    /\ pc = "done" => Len(slides) = Len(frames)

\* the case of C10: a document of several frames has been assembled, with a
\* body that is trimmed
C10_Witness ==
    /\ pc = "done"
    /\ Len(frames) >= 2
    /\ Len(slides) = Len(frames)
    /\ \E k \in 1..Len(slides) : strip(slides[k].content) # slides[k].content

\* the text s has a bracketed command \cmd[..]{..}, each part on one line
HasBracketed(s, cmd) ==
    \E i \in 1..Len(s) : \E j \in (i + 2)..Len(s) : \E k \in (j + 2)..Len(s) :
        /\ s[i] = cmd /\ s[i + 1] = "["
        /\ s[j] = "]" /\ s[j + 1] = "{"
        /\ s[k] = "}"
        /\ \A n \in ((i + 2)..(j - 1)) \cup ((j + 2)..(k - 1)) : s[n] # "\n"

NoMetadata(s) == \A cmd \in {"\\title", "\\author", "\\institute"} : ~HasBracketed(s, cmd)

\* C11: for a document without a bracketed \title, \author or \institute
\* command the front matter has the title "Untitled Presentation" and the
\* author "Unknown Author", whatever the widescreen flag, and it has the line
\* 'widescreen: true' exactly when the flag is set.
C11_DefaultFrontMatter ==
    (pc # "header" /\ NoMetadata(input_text)) =>
        /\ Len(rmd_content) >= 6
        /\ SubSeq(rmd_content, 1, 5)
             = <<"---\ntitle: \"", "Untitled Presentation", "\"\nauthor: \"", "Unknown Author",
                 "\"\ndate: \"(backquote)r Sys.Date()(backquote)\"\noutput: \n  ioslides_presentation:\n    toc: true\n    mathjax: true\n">>
        /\ (rmd_content[6] = "    widescreen: true\n") <=> widescreen
        /\ ("    widescreen: true\n" \in Range(rmd_content)) <=> widescreen

\* the case of C11: a widescreen conversion of a document whose title and
\* author commands have no bracketed short form has ended
C11_Witness ==
    /\ pc = "done"
    /\ widescreen
    /\ NoMetadata(input_text)
    /\ {"\\title", "\\author"} \subseteq Range(input_text)

\* the URLs U of the footnotes \footnote{\url{U}} of the text s, U free of braces
FootnoteUrls(s) ==
    {SubSeq(s, i + 4, j - 1) :
        <<i, j>> \in {p \in (1..Len(s)) \X (1..Len(s)) :
                        /\ p[2] > p[1] + 4 /\ p[2] < Len(s)
                        /\ SubSeq(s, p[1], p[1] + 3) = <<"\\footnote", "{", "\\url", "{">>
                        /\ SubSeq(s, p[2], p[2] + 1) = <<"}", "}">>
                        /\ \A n \in (p[1] + 4)..(p[2] - 1) : s[n] \notin {"{", "}"}}}

\* the texts T of the footnotes \footnote{T} of the text s, T free of braces
\* and of commands
FootnoteTexts(s) ==
    {SubSeq(s, i + 2, j - 1) :
        <<i, j>> \in {p \in (1..Len(s)) \X (1..Len(s)) :
                        /\ p[2] > p[1] + 2
                        /\ SubSeq(s, p[1], p[1] + 1) = <<"\\footnote", "{">>
                        /\ s[p[2]] = "}"
                        /\ \A n \in (p[1] + 2)..(p[2] - 1) :
                              s[n] \notin {"{", "}"} /\ s[n] \notin Backslashed}}

ArrowAnchor(U) == <<" ", "<a href=\"">> \o U \o <<"\" target=\"_blank\">", "↗", "</a>">>

\* C12: in the body of a translated frame a footnote around a bare URL
\* becomes the arrow anchor ' <a href="U" target="_blank">↗</a>', with no
\* small-font span and no anchor labelled with the URL; a footnote with plain
\* text becomes a <small> span.
C12_FootnoteUrlArrow ==
    \A k \in 1..Len(slides) :
        slides[k].translated =>
            /\ \A U \in FootnoteUrls(frames[k].content) :
                  /\ Find(slides[k].content, ArrowAnchor(U), 1) # 0
                  /\ "<small>" \notin Range(slides[k].content)
                  /\ Find(slides[k].content, <<"\" target=\"_blank\">">> \o U, 1) = 0
            /\ \A T \in FootnoteTexts(frames[k].content) :
                  Find(slides[k].content, <<" ", "<small>">> \o T \o <<"</small>">>, 1) # 0

\* the number of size commands of the text s
FontCommands(s) == Len(SelectSeq(s, LAMBDA x : x \in FontCmds))

\* a size command of s has its opening brace
HasOpenFontCommand(s) ==
    \E i \in 1..Len(s) : \E j \in (i + 1)..Len(s) :
        /\ s[i] \in FontCmds /\ s[j] = "{"
        /\ \A n \in (i + 1)..(j - 1) : s[n] \in WS

\* C13: fix_font_size_commands terminates on every text: an iteration of its
\* loop either removes one command wrapper, which makes the text strictly
\* shorter, or leaves the loop with the text as it stands, and nothing is
\* raised.
C13_FontLoopTerminates ==
    /\ [][pc = "fontsize" =>
             /\ exc' = "None"
             /\ \/ /\ pc' = "fontsize"
                   /\ Len(latex_text') < Len(latex_text)
                   /\ FontCommands(latex_text') = FontCommands(latex_text) - 1
                \/ /\ pc' = "tables"
                   /\ latex_text' = latex_text]_vars
    /\ (pc = "fontsize") ~> (pc = "tables")

\* the case of C13: the loop has removed a command and then left at a command
\* whose opening brace has no matching close
C13_Witness ==
    /\ pc = "tables"
    /\ HasOpenFontCommand(latex_text)
    /\ FontCommands(latex_text) < FontCommands(input_text)

\* the text that fix_font_size_commands is called with (line 125)
FontInput == verbatim_sub(lstlisting_sub(section_sub(input_text)))

\* the opening brace of the size command at i: the first lexeme after the
\* whitespace that follows the name; 0 when that is no brace
OpenBraceOf(s, i) ==
    IF \E j \in (i + 1)..Len(s) : s[j] = "{" /\ \A n \in (i + 1)..(j - 1) : s[n] \in WS
    THEN CHOOSE j \in (i + 1)..Len(s) : s[j] = "{" /\ \A n \in (i + 1)..(j - 1) : s[n] \in WS
    ELSE 0

\* opening minus closing braces of s[a..b]
BraceBalance(s, a, b) ==
    Cardinality({n \in a..b : s[n] = "{"}) - Cardinality({n \in a..b : s[n] = "}"})

\* the closing brace that matches the opening brace at j; 0 when there is none
CloseOf(s, j) ==
    IF \E k \in (j + 1)..Len(s) : BraceBalance(s, j, k) = 0
    THEN CHOOSE k \in (j + 1)..Len(s) :
            BraceBalance(s, j, k) = 0 /\ \A n \in (j + 1)..(k - 1) : BraceBalance(s, j, n) # 0
    ELSE 0

\* the size commands of s that have an opening brace
BracedCommands(s) == {i \in 1..Len(s) : s[i] \in FontCmds /\ OpenBraceOf(s, i) # 0}

\* s without the lexemes at the positions D
Without(s, D) ==
    [m \in 1..Cardinality((1..Len(s)) \ D) |->
        s[CHOOSE k \in (1..Len(s)) \ D : Cardinality({x \in (1..Len(s)) \ D : x <= k}) = m]]

\* C14: when the opening brace of each size command has a depth-matched
\* closing brace, the result of fix_font_size_commands has no size command
\* followed by an opening brace and is the input without each command name,
\* its opening brace and its matching closing brace; every other character
\* is kept.
C14_FontWrappersOnly ==
    (/\ pc = "tables"
     /\ \A i \in BracedCommands(FontInput) : CloseOf(FontInput, OpenBraceOf(FontInput, i)) # 0)
    => /\ ~HasOpenFontCommand(latex_text)
       /\ latex_text
            = Without(FontInput,
                      UNION {{i, OpenBraceOf(FontInput, i), CloseOf(FontInput, OpenBraceOf(FontInput, i))} :
                                i \in BracedCommands(FontInput)})

\* every size command of s is followed, after optional whitespace, by an
\* opening brace that has a depth-matched closing brace
AllCommandsClosed(s) ==
    \A i \in 1..Len(s) :
        s[i] \in FontCmds => OpenBraceOf(s, i) # 0 /\ CloseOf(s, OpenBraceOf(s, i)) # 0

\* C14, amended: when each size command is followed, after optional
\* whitespace, by an opening brace with a depth-matched closing brace, the
\* result of fix_font_size_commands has no size command followed by an opening
\* brace and is the input without each command name, the whitespace between
\* the name and its opening brace, that brace and its matching closing brace;
\* every other character, nested groups included, is kept in its order.
C14_FontWrappersRemoved ==
    (pc = "tables" /\ AllCommandsClosed(FontInput))
    => /\ ~HasOpenFontCommand(latex_text)
       /\ latex_text
            = Without(FontInput,
                      UNION {(i..OpenBraceOf(FontInput, i))
                                \cup {CloseOf(FontInput, OpenBraceOf(FontInput, i))} :
                                i \in BracedCommands(FontInput)})

\* the case of C14: the commands of a text with a nested group, a nested
\* command or a space before the brace have been removed
C14_Witness ==
    /\ pc = "tables"
    /\ AllCommandsClosed(FontInput)
    /\ \E i \in BracedCommands(FontInput) :
          \/ OpenBraceOf(FontInput, i) > i + 1
          \/ \E n \in (OpenBraceOf(FontInput, i) + 1)..(CloseOf(FontInput, OpenBraceOf(FontInput, i)) - 1) :
                FontInput[n] = "{"

\* the rows of the text: the indices of its lines that start with a pipe
RowLines(text) == {k \in 1..Len(Lines(text)) : startswith(Lines(text)[k], <<"|">>)}

SeparatorLines(text) == {k \in 1..Len(Lines(text)) : IsSeparatorLine(Lines(text)[k])}

\* the text has rows, one separator row, directly under the first row, with a
\* --- group for each cell of that row
SeparatorUnderFirstRow(text) ==
    /\ RowLines(text) # {}
    /\ \E f \in RowLines(text) :
          /\ \A k \in RowLines(text) : f <= k
          /\ SeparatorLines(text) = {f + 1}
          /\ count(Lines(text)[f + 1], "---") = count(Lines(text)[f], "|") - 1

\* C15: the translation of a tabular body, in a table environment or bare in
\* a frame, has exactly one separator row, directly under the first row that
\* is emitted and with as many --- groups as that row has cells, also when
\* only whitespace precedes the first row terminator of the body.
C15_SeparatorUnderFirstRow ==
    /\ (pc = "malformed" /\ {"table", "tabular"} \subseteq Range(input_text))
          => SeparatorUnderFirstRow(latex_text)
    /\ (pc = "frame_malformed" /\ "tabular" \in Range(frames[idx].content))
          => SeparatorUnderFirstRow(content)

\* the least element of a set of numbers, 0 for the empty set
Least(S) == IF S = {} THEN 0 ELSE CHOOSE x \in S : \A y \in S : x <= y

\* the frame block that opens at i ends with the first \end{frame} after it
BlockEnd(s, i) == Least({e \in (i + 4)..Len(s) : MatchAt(s, e, End("frame"))})

\* the braces of the title group of the block that opens at i: the first
\* opening brace after the opener and the first closing brace after that one,
\* both inside the block
TitleOpen(s, i) == Least({j \in (i + 4)..(BlockEnd(s, i) - 1) : s[j] = "{"})
TitleClose(s, i) ==
    IF TitleOpen(s, i) = 0 THEN 0
    ELSE Least({j \in (TitleOpen(s, i) + 1)..(BlockEnd(s, i) - 1) : s[j] = "}"})

\* the frame blocks of s that have a title group
TitledBlocks(s) ==
    {i \in 1..Len(s) : MatchAt(s, i, Begin("frame")) /\ BlockEnd(s, i) # 0 /\ TitleClose(s, i) # 0}

BlockPair(s, i) ==
    [title |-> SubSeq(s, TitleOpen(s, i) + 1, TitleClose(s, i) - 1),
     content |-> SubSeq(s, TitleClose(s, i) + 1, BlockEnd(s, i) - 1)]

\* C16: the frame segmenter yields one (title, body) pair for each frame block
\* that has a title group after its opener and nothing for a block without
\* one; the title and the body of a pair come from one block, so a block
\* without title is not merged with the frame that follows it and does not
\* change its pair.
C16_OnePairPerTitledBlock ==
    pc = "loop" =>
        /\ Len(frames) = Cardinality(TitledBlocks(latex_text))
        /\ Range(frames) = {BlockPair(latex_text, i) : i \in TitledBlocks(latex_text)}
        /\ \A k \in 1..Len(frames) :
              \A n \in 1..Len(frames[k].content) : ~MatchAt(frames[k].content, n, Begin("frame"))

\* C17: the centered short-circuit is taken exactly for the frames whose
\* trimmed title is ~ and whose body is not empty: the slide of such a frame
\* is the heading ## and the centered div around the trimmed body, which is
\* not translated; the body of every other frame, whatever it starts with,
\* gets the whole per-frame translation.
C17_ShortCircuitExactly ==
    \A k \in 1..Len(slides) :
        IF strip(frames[k].title) = <<"~">> /\ strip(frames[k].content) # <<>>
        THEN /\ slides[k].slide_title = <<"##">>
             /\ slides[k].content
                  = <<DivFlex, " align-items: center; justify-content: center; height: 400px;\">",
                      "\n", "<div style=\"font-size: 36px; text-align: center;\">">>
                    \o strip(frames[k].content) \o <<"</div>", "\n", "</div>">>
             /\ ~slides[k].translated
        ELSE /\ slides[k].translated
             /\ "\\textbullet" \notin Range(slides[k].content)

\* the contents of the verbatim environments of the text s
VerbatimOf(s) ==
    {SubSeq(s, i + 4, j - 1) :
        <<i, j>> \in {p \in (1..Len(s)) \X (1..Len(s)) :
                        /\ MatchAt(s, p[1], Begin("verbatim"))
                        /\ p[2] >= p[1] + 4
                        /\ MatchAt(s, p[2], End("verbatim"))
                        /\ \A n \in (p[1] + 4)..(p[2] - 1) : ~MatchAt(s, n, End("verbatim"))}}

\* C18: the text that the verbatim translator puts in a fenced code block is
\* not rewritten by a later stage: the output holds, between two fence lines,
\* the trimmed content of each verbatim environment of a frame as it is in the
\* source, also when it has item markers, pipes, size commands, hyperlink or
\* image commands.
C18_VerbatimKept ==
    (pc = "done" /\ Len(frames) = 1) =>
        \A v \in VerbatimOf(input_text) :
            Find(rmd_content, <<"\n", Fence, "\n">> \o strip(v) \o <<"\n", Fence, "\n">>, 1) # 0

====
